---- MODULE Spec2Model ----
(***************************************************************************)
(* xsarsea.windspeed: wind-speed inversion from radar backscatter          *)
(* (windspeed.py), the LUT builder (gmfs.py) and Model.to_lut (models.py). *)
(*                                                                         *)
(* Numbers.  Floats are modelled by integers plus one NaN value; all       *)
(* arithmetic is exact (no rounding).  Linear backscatter is counted in    *)
(* units of 1e-3 and only powers of ten are used, so that 10*log10 is an   *)
(* integer number of dB; the offset 1e-15 is below that resolution and     *)
(* shows only as the -150 dB of a zero backscatter.  Costs are compared    *)
(* after multiplication by a positive factor common to all cells of one    *)
(* cost grid, which leaves every arg-min unchanged.                        *)
(*                                                                         *)
(* Three state machines share the variables: Spec and SpecPixel (a call of *)
(* invert_from_model on a scene, on one pixel), SpecLut (a call of gmf_lut *)
(* or _gmf_lut) and SpecModel (a Model and calls of its to_lut).           *)
(***************************************************************************)
EXTENDS Integers, Sequences, FiniteSets, TLC

VARIABLES
    args,           \* invert_from_model(*args): tuple of arrays
    model,          \* kwargs['model']: [tuple, names]
    chunks,         \* block lengths of the (dask) arrays; one block = numpy
    pc,             \* "start" | "called" | "done" | "error"
    err,            \* the exception raised, [type, name]
    inc,            \* locals of invert_from_model after the dB conversion
    sigma0_co_db,
    sigma0_cr_db,
    nesz_cr_db,
    ancillary_wind,
    models_names,
    blocks_done,    \* blocks whose _invert_from_model_numpy has returned
    lut_calls,      \* names get_lut was called with
    px_locals,      \* per pixel: locals of __invert_from_model_scalar
    ws,             \* the wind speed field
    lut_request,    \* arguments of a call of gmf_lut, _gmf_lut or gmf
    lut_pc,         \* "idle" | "start" | "returned" | "error"
    lut_result,     \* [err, lut, path] of that call
    mdl_self,       \* a Model instance: [name, raw], raw what _raw_lut returns
    mdl_pc,         \* "idle" | "constructed" | "returned" | "error"
    mdl_log,        \* the calls of to_lut made so far: [units, raw, err, lut, steps]
    registry,       \* Model._available_models: name -> model
    built,          \* the models constructed so far, in order: [id, name, pol]
    got             \* what the last get_model or available_models returned

\* state of invert_from_model
ivars == <<args, model, chunks, pc, err, inc, sigma0_co_db, sigma0_cr_db,
           nesz_cr_db, ancillary_wind, models_names, blocks_done, lut_calls,
           px_locals, ws>>

\* state of the LUT builder
bvars == <<lut_request, lut_pc, lut_result>>

\* state of a Model
mvars == <<mdl_self, mdl_pc, mdl_log, registry, built, got>>

vars == <<ivars, bvars, mvars>>

(***************************************************************************)
(* Floats                                                                  *)
(***************************************************************************)
NaN == -1000000

IsNaN(x) == x = NaN

FAbs(x) == IF IsNaN(x) THEN NaN ELSE IF x < 0 THEN -x ELSE x

FSub(a, b) == IF IsNaN(a) \/ IsNaN(b) THEN NaN ELSE a - b

FAdd(a, b) == IF IsNaN(a) \/ IsNaN(b) THEN NaN ELSE a + b

FMul(a, b) == IF IsNaN(a) \/ IsNaN(b) THEN NaN ELSE a * b

FSq(a) == FMul(a, a)

\* a < b as IEEE-754 compares: false when either side is NaN
FLess(a, b) == ~IsNaN(a) /\ ~IsNaN(b) /\ a < b

RECURSIVE Log10(_)
Log10(x) == IF x < 10 THEN 0 ELSE 1 + Log10(x \div 10)

RECURSIVE Pow10(_)
Pow10(n) == IF n <= 0 THEN 1 ELSE 10 * Pow10(n - 1)

\* 10 * np.log10(x + 1e-15), x in units of 1e-3
LinToDb(x) ==
    IF IsNaN(x) \/ x < 0 THEN NaN
    ELSE IF x = 0 THEN -150
    ELSE 10 * Log10(x) - 30

\* 10 * np.log10(np.clip(x, 1e-15, None))
LinToDbClip(x) ==
    IF IsNaN(x) THEN NaN
    ELSE IF x <= 0 THEN -150
    ELSE 10 * Log10(x) - 30

\* 10. ** (x / 10.), result in units of 1e-3 (x a multiple of 10, x >= -30)
DbToLin(x) ==
    IF IsNaN(x) THEN NaN
    ELSE IF x < -30 THEN 0     \* below the resolution of 1e-3
    ELSE Pow10((x + 30) \div 10)

(***************************************************************************)
(* Arrays: 1-based sequences; numpy indices are 0-based                    *)
(***************************************************************************)
Min(S) == CHOOSE x \in S : \A y \in S : x <= y

Max(S) == CHOOSE x \in S : \A y \in S : x >= y

\* np.argmin of a 1-D float array: the first NaN if there is one, else the
\* first minimum (0-based)
ArgMin(a) ==
    LET nans == {k \in 1..Len(a) : IsNaN(a[k])}
        m    == Min({a[k] : k \in 1..Len(a)})
    IN  IF nans # {} THEN Min(nans) - 1
        ELSE Min({k \in 1..Len(a) : a[k] = m}) - 1

\* an array as a value: every element computed once, when the array is made
Arr(a) == a \o <<>>

\* C-order flattening of a 2-D array (rows of equal length)
Flatten2(A) ==
    Arr([k \in 1..(Len(A) * Len(A[1])) |->
            A[((k - 1) \div Len(A[1])) + 1][((k - 1) % Len(A[1])) + 1]])

(***************************************************************************)
(* Model names and LUTs                                                    *)
(*                                                                         *)
(* A name is <<prefix, rest>>, so that str.startswith is a test on the     *)
(* prefix.  None is the Python None.                                       *)
(***************************************************************************)
None == <<"None">>

StartsWith(name, prefix) == name[1] = prefix

NoErr == [type |-> "", name |-> None]

NoLut == [incidence |-> <<>>, wspd |-> <<>>, phi |-> <<>>, units |-> "", values |-> <<>>]

\* direction axis of the tabulated co-pol LUTs
PhiAxis(id) ==
    CASE id = "sym"  -> <<0, 90, 180>>
      [] id = "half" -> <<0, 90>>
      [] id = "full" -> <<0, 90, 180, 270>>

\* tabulated co-pol backscatter (dB): grows with wind speed and incidence
\* slice; cross-wind it is one dB lower in the first slice, one dB higher in
\* the second
SarwingValue(i, w, p) ==
    (w - 24) + (IF i = 30 THEN 7 ELSE 0)
             + (IF p \in {90, 270} THEN (IF i = 30 THEN 1 ELSE -1) ELSE 0)

\* sarwing_luts.lut_from_sarwing: a tabulated LUT, dims (incidence, wspd, phi), dB
lut_from_sarwing(name) ==
    LET incA == <<20, 30>>
        wA   == <<4, 5, 6>>
        pA   == PhiAxis(name[2])
    IN  [incidence |-> incA, wspd |-> wA, phi |-> pA, units |-> "dB",
         values |-> Arr([i \in 1..Len(incA) |-> Arr([w \in 1..Len(wA) |->
                        Arr([p \in 1..Len(pA) |-> SarwingValue(incA[i], wA[w], pA[p])])])])]

\* gmfs._gmf_to_lut: the LUT of an analytical cross-pol GMF, dims
\* (incidence, wspd), linear units
gmf_to_lut(name) ==
    [incidence |-> <<25, 35>>, wspd |-> <<3, 5, 8>>, phi |-> <<>>, units |-> "linear",
     values |-> << <<1, 10, 100>>, <<1, 1, 10>> >>]

\* lut = 10 * np.log10(np.clip(lut, 1e-15, None)); lut.attrs['units'] = 'dB'
ClipToDb2(lut) ==
    [lut EXCEPT !.units = "dB",
                !.values = Arr([i \in 1..Len(lut.values) |->
                              Arr([w \in 1..Len(lut.values[i]) |->
                                      LinToDbClip(lut.values[i][w])])])]

get_lut(name) ==
    IF name = None
    THEN [err |-> [type |-> "AttributeError", name |-> name], lut |-> NoLut]
    ELSE IF StartsWith(name, "sarwing_lut_")
    THEN [err |-> NoErr, lut |-> lut_from_sarwing(name)]
    ELSE IF StartsWith(name, "gmf_")
    THEN [err |-> NoErr, lut |-> ClipToDb2(gmf_to_lut(name))]
    ELSE [err |-> [type |-> "ValueError", name |-> name], lut |-> NoLut]

(***************************************************************************)
(* np.cos(np.radians(phi)) and np.sin(np.radians(phi)), in units of        *)
(* 1/TrigScale, rounded to the nearest unit                                *)
(***************************************************************************)
TrigScale == 100

CosT(phi) ==
    CASE phi \in {0, 360} -> 100
      [] phi \in {90, 270} -> 0
      [] phi \in {178, 179, 180, 181, 182} -> -100

SinT(phi) ==
    CASE phi \in {0, 180, 360} -> 0
      [] phi = 90 -> 100
      [] phi = 270 -> -100
      [] phi = 178 -> 3
      [] phi = 179 -> 2
      [] phi = 181 -> -2
      [] phi = 182 -> -3

(***************************************************************************)
(* _invert_from_model_numpy: constants and the arrays derived from the     *)
(* LUTs                                                                    *)
(***************************************************************************)
dsig_co_inv == 10      \* 1 / dsig_co, dsig_co = 0.1

d_antenna == 2

d_azi == 2

dwspd_fg == 2

wspd_threshold == 5    \* (spd_dual > 5) and (wspd > 5)

\* two-digit numbers in base 10^8: <<hi, lo>> stands for hi * 10^8 + lo
Base == 10^8

BigNaN == <<NaN, NaN>>

BigNorm(hi, lo) == <<hi + (lo \div Base), lo % Base>>

\* x * (10^8)^n
BigShift(x, n) ==
    CASE n = 0 -> BigNorm(0, x)
      [] n = 1 -> <<x, 0>>

BigAdd(a, b) == BigNorm(a[1] + b[1], a[2] + b[2])

BigLessEq(a, b) == a[1] < b[1] \/ (a[1] = b[1] /\ a[2] <= b[2])

\* np.argmin of a 1-D array of two-digit numbers
ArgMinBig(a) ==
    LET nans == {k \in 1..Len(a) : a[k] = BigNaN}
        ismin(k) == \A j \in 1..Len(a) : BigLessEq(a[k], a[j])
    IN  IF nans # {} THEN Min(nans) - 1
        ELSE Min({k \in 1..Len(a) : ismin(k)}) - 1

RECURSIVE GCD(_, _)
GCD(a, b) == IF b = 0 THEN a ELSE GCD(b, a % b)

\* lut.transpose('wspd', 'phi', 'incidence')
TransposeCo(lut) ==
    Arr([w \in 1..Len(lut.wspd) |-> Arr([p \in 1..Len(lut.phi) |->
        Arr([i \in 1..Len(lut.incidence) |-> lut.values[i][w][p]])])])

\* lut.transpose('wspd', 'incidence')
TransposeCr(lut) ==
    Arr([w \in 1..Len(lut.wspd) |->
            Arr([i \in 1..Len(lut.incidence) |-> lut.values[i][w]])])

\* np_phi_lut, np_wspd_lut = np.meshgrid(np_phi_dim, np_wspd_dim): shape (wspd, phi)
MeshPhi(phi_dim, wspd_dim) ==
    Arr([w \in 1..Len(wspd_dim) |-> Arr([p \in 1..Len(phi_dim) |-> phi_dim[p]])])

MeshWspd(phi_dim, wspd_dim) ==
    Arr([w \in 1..Len(wspd_dim) |-> Arr([p \in 1..Len(phi_dim) |-> wspd_dim[w]])])

\* (180 - (np_phi_dim[-1] - np_phi_dim[0])) < 2
Phi180(np_phi_dim) == (180 - (np_phi_dim[Len(np_phi_dim)] - np_phi_dim[1])) < 2

\* np_wspd_lut * np.cos(np.radians(np_phi_lut)), in units of 1/TrigScale
TimesCos(np_wspd_lut, np_phi_lut) ==
    Arr([w \in 1..Len(np_wspd_lut) |-> Arr([p \in 1..Len(np_wspd_lut[w]) |->
            np_wspd_lut[w][p] * CosT(np_phi_lut[w][p])])])

\* np_wspd_lut * np.sin(np.radians(np_phi_lut)), in units of 1/TrigScale
TimesSin(np_wspd_lut, np_phi_lut) ==
    Arr([w \in 1..Len(np_wspd_lut) |-> Arr([p \in 1..Len(np_wspd_lut[w]) |->
            np_wspd_lut[w][p] * SinT(np_phi_lut[w][p])])])

\* the variables __invert_from_model_scalar closes over
Closure(co_lut, cr_lut) ==
    [np_sigma0_co_lut_db |-> TransposeCo(co_lut),
     np_wspd_dim |-> co_lut.wspd,
     np_phi_dim  |-> co_lut.phi,
     np_inc_dim  |-> co_lut.incidence,
     np_wspd_lut |-> MeshWspd(co_lut.phi, co_lut.wspd),
     np_wspd_lut_co_antenna |->
        TimesCos(MeshWspd(co_lut.phi, co_lut.wspd), MeshPhi(co_lut.phi, co_lut.wspd)),
     np_wspd_lut_co_azi |->
        TimesSin(MeshWspd(co_lut.phi, co_lut.wspd), MeshPhi(co_lut.phi, co_lut.wspd)),
     np_sigma0_cr_lut_db |-> TransposeCr(cr_lut),
     np_wspd_lut_cr |-> cr_lut.wspd,
     np_inc_cr_dim  |-> cr_lut.incidence,
     phi_180 |-> Phi180(co_lut.phi)]

\* the dummy empty cross-pol arrays "for numba typing"
DummyCr == [incidence |-> <<>>, wspd |-> <<>>, phi |-> <<>>, units |-> "",
            values |-> <<>>]

\* a guard that forgets the incidence
GuardCoOnly(one_sigma0_co_db, one_inc) == IsNaN(one_sigma0_co_db)

\* a slice choice that ignores the pixel's incidence
NearestIdxFirst(dim, one_inc) == 0

\* no folding, whatever the LUT's direction axis
FoldNever(phi_180, m_azi) == m_azi

(***************************************************************************)
(* __invert_from_model_scalar                                              *)
(***************************************************************************)
\* if np.isnan(one_sigma0_co_db) or np.isnan(one_inc): return np.nan
Guard(one_sigma0_co_db, one_inc) == IsNaN(one_sigma0_co_db) \/ IsNaN(one_inc)

\* np.argmin(np.abs(dim - one_inc))
NearestIdx(dim, one_inc) ==
    ArgMin(Arr([j \in 1..Len(dim) |-> FAbs(FSub(dim[j], one_inc))]))

\* if phi_180: m_azi = np.abs(m_azi)
Fold(phi_180, m_azi) == IF phi_180 THEN FAbs(m_azi) ELSE m_azi

\* J_co = Jwind_co + Jsig_co, shape (wspd, phi), multiplied by
\* (d_antenna * d_azi * TrigScale)^2
JcoCell(ant, azi, lut_db, m_antenna, m_azi, one_sigma0_co_db) ==
    FAdd(FAdd(FSq(FMul(d_azi, FSub(ant, FMul(TrigScale, m_antenna)))),
              FSq(FMul(d_antenna, FSub(azi, FMul(TrigScale, m_azi))))),
         FSq(FMul(d_antenna * d_azi * TrigScale * dsig_co_inv,
                  FSub(lut_db, one_sigma0_co_db))))

Jco(c, i_inc, m_antenna, m_azi, one_sigma0_co_db) ==
    Arr([w \in 1..Len(c.np_wspd_lut) |-> Arr([p \in 1..Len(c.np_wspd_lut[w]) |->
        JcoCell(c.np_wspd_lut_co_antenna[w][p], c.np_wspd_lut_co_azi[w][p],
                c.np_sigma0_co_lut_db[w][p][i_inc + 1],
                m_antenna, m_azi, one_sigma0_co_db)])])

\* lut_idx = (iJ_co // J_co.shape[-1], iJ_co % J_co.shape[-1])
LutIdx(iJ_co, ncol) == <<iJ_co \div ncol, iJ_co % ncol>>

\* J_cr = Jsig_cr + Jwind_cr over the cross-pol wind-speed axis, with
\* dsig_cr = (1.25 / (nrcslin / neszlin)) ** 4.  With nrcslin / neszlin = N / D
\* in lowest terms, J_cr * dwspd_fg^2 * (5 D)^8 is
\*     dwspd_fg^2 * 4^8 * d^2 * N^8  +  5^8 * e^2 * D^8
\* where d is the backscatter residual and e the wind-speed residual.
JcrCell(N, D, d, e) ==
    BigAdd(BigShift(dwspd_fg * dwspd_fg * (4^8) * d * d, Log10(N)),
           BigShift((5^8) * e * e, Log10(D)))

JcrRatio(c, i_inc, wspd, one_sigma0_cr_db, nrcslin, neszlin, g) ==
    Arr([w \in 1..Len(c.np_wspd_lut_cr) |->
            IF IsNaN(nrcslin) \/ IsNaN(neszlin) THEN BigNaN
            ELSE JcrCell(nrcslin \div g, neszlin \div g,
                         c.np_sigma0_cr_lut_db[w][i_inc + 1] - one_sigma0_cr_db,
                         c.np_wspd_lut_cr[w] - wspd)])

Jcr(c, i_inc, wspd, one_sigma0_cr_db, one_nesz_cr_db) ==
    JcrRatio(c, i_inc, wspd, one_sigma0_cr_db,
             DbToLin(one_sigma0_cr_db), DbToLin(one_nesz_cr_db),
             IF IsNaN(one_nesz_cr_db) THEN 1
             ELSE GCD(DbToLin(one_sigma0_cr_db), DbToLin(one_nesz_cr_db)))

\* an override taken as soon as one of the two estimates exceeds the threshold
OverrideEither(spd_dual, wspd) ==
    IF spd_dual > 5 \/ wspd > 5 THEN spd_dual ELSE wspd

\* if (spd_dual > 5) and (wspd > 5): wspd = spd_dual
Override(spd_dual, wspd) ==
    IF spd_dual > wspd_threshold /\ wspd > wspd_threshold THEN spd_dual ELSE wspd

\* the value returned and the locals that led to it (-1, NaN: not assigned)
Returned(ret, i_inc, lut_idx, wspd_co, dual, i_inc_cr, spd_dual) ==
    [ret |-> ret, guard |-> FALSE, i_inc |-> i_inc, lut_idx |-> lut_idx,
     wspd_co |-> wspd_co, dual |-> dual, i_inc_cr |-> i_inc_cr, spd_dual |-> spd_dual]

\* iJ_co = np.argmin(J_co), mapped back to (row, column)
CoLutIdx(J_co) == LutIdx(ArgMin(Flatten2(J_co)), Len(J_co[1]))

\* spd_dual = np_wspd_lut_cr[np.argmin(J_cr)] and the override
DualStage(c, i_inc, lut_idx, wspd, i_inc_cr, spd_dual) ==
    Returned(Override(spd_dual, wspd), i_inc, lut_idx, wspd, TRUE, i_inc_cr, spd_dual)

\* if not np.isnan(one_sigma0_cr_db): dual-pol inversion from the co-pol wspd
CrStage(c, i_inc, lut_idx, wspd, i_inc_cr, one_sigma0_cr_db, one_nesz_cr_db) ==
    DualStage(c, i_inc, lut_idx, wspd, i_inc_cr,
        c.np_wspd_lut_cr[ArgMinBig(Jcr(c, i_inc_cr, wspd, one_sigma0_cr_db,
                                       one_nesz_cr_db)) + 1])

\* wspd = np_wspd_lut[lut_idx], then the cross-pol branch
WspdStage(c, i_inc, lut_idx, wspd, one_inc, one_sigma0_cr_db, one_nesz_cr_db) ==
    IF ~IsNaN(one_sigma0_cr_db)
    THEN CrStage(c, i_inc, lut_idx, wspd, NearestIdx(c.np_inc_cr_dim, one_inc),
                 one_sigma0_cr_db, one_nesz_cr_db)
    ELSE Returned(wspd, i_inc, lut_idx, wspd, FALSE, -1, NaN)

IdxStage(c, i_inc, lut_idx, one_inc, one_sigma0_cr_db, one_nesz_cr_db) ==
    WspdStage(c, i_inc, lut_idx, c.np_wspd_lut[lut_idx[1] + 1][lut_idx[2] + 1],
              one_inc, one_sigma0_cr_db, one_nesz_cr_db)

\* the co-pol cost grid of the incidence slice i_inc and its arg-min
CoStage(c, i_inc, one_inc, one_sigma0_co_db, one_sigma0_cr_db, one_nesz_cr_db, one_ancillary_wind) ==
    IdxStage(c, i_inc,
        CoLutIdx(Jco(c, i_inc, one_ancillary_wind.re,
                     Fold(c.phi_180, one_ancillary_wind.im), one_sigma0_co_db)),
        one_inc, one_sigma0_cr_db, one_nesz_cr_db)

invert_from_model_scalar(c, one_inc, one_sigma0_co_db, one_sigma0_cr_db, one_nesz_cr_db, one_ancillary_wind) ==
    IF Guard(one_sigma0_co_db, one_inc)
    THEN [ret |-> NaN, guard |-> TRUE, i_inc |-> -1, lut_idx |-> <<-1, -1>>,
          wspd_co |-> NaN, dual |-> FALSE, i_inc_cr |-> -1, spd_dual |-> NaN]
    ELSE CoStage(c, NearestIdx(c.np_inc_dim, one_inc), one_inc, one_sigma0_co_db,
                 one_sigma0_cr_db, one_nesz_cr_db, one_ancillary_wind)

(***************************************************************************)
(* _invert_from_model_numpy on one block of pixels                         *)
(***************************************************************************)
\* not np.all(np.isnan(np_sigma0_cr_db))
NeedCr(np_sigma0_cr_db) ==
    ~(\A k \in 1..Len(np_sigma0_cr_db) : IsNaN(np_sigma0_cr_db[k]))

\* a vectorization that broadcasts the first incidence of the block
VectorizedFirstInc(c, calls, np_inc, np_sigma0_co_db, np_sigma0_cr_db, np_nesz_cr_db, np_ancillary_wind) ==
    [err |-> NoErr, calls |-> calls,
     out |-> Arr([k \in 1..Len(np_inc) |->
                invert_from_model_scalar(c, np_inc[1], np_sigma0_co_db[k],
                    np_sigma0_cr_db[k], np_nesz_cr_db[k], np_ancillary_wind[k])])]

\* the vectorized kernel over the block, with both LUTs loaded
Vectorized(c, calls, np_inc, np_sigma0_co_db, np_sigma0_cr_db, np_nesz_cr_db, np_ancillary_wind) ==
    [err |-> NoErr, calls |-> calls,
     out |-> Arr([k \in 1..Len(np_inc) |->
                invert_from_model_scalar(c, np_inc[k], np_sigma0_co_db[k],
                    np_sigma0_cr_db[k], np_nesz_cr_db[k], np_ancillary_wind[k])])]

\* the cross-pol LUT, loaded only if some cross-pol value is not NaN
WithCr(names, co, need_cr, cr, np_inc, np_sigma0_co_db, np_sigma0_cr_db, np_nesz_cr_db, np_ancillary_wind) ==
    IF cr.err # NoErr
    THEN [err |-> cr.err, calls |-> {names[1], names[2]}, out |-> <<>>]
    ELSE Vectorized(Closure(co.lut, cr.lut),
                    {names[1]} \cup (IF need_cr THEN {names[2]} ELSE {}),
                    np_inc, np_sigma0_co_db, np_sigma0_cr_db, np_nesz_cr_db,
                    np_ancillary_wind)

WithCo(names, co, need_cr, np_inc, np_sigma0_co_db, np_sigma0_cr_db, np_nesz_cr_db, np_ancillary_wind) ==
    IF co.err # NoErr
    THEN [err |-> co.err, calls |-> {names[1]}, out |-> <<>>]
    ELSE WithCr(names, co, need_cr,
                IF need_cr THEN get_lut(names[2]) ELSE [err |-> NoErr, lut |-> DummyCr],
                np_inc, np_sigma0_co_db, np_sigma0_cr_db, np_nesz_cr_db,
                np_ancillary_wind)

invert_from_model_numpy(names, np_inc, np_sigma0_co_db, np_sigma0_cr_db, np_nesz_cr_db, np_ancillary_wind) ==
    WithCo(names, get_lut(names[1]), NeedCr(np_sigma0_cr_db), np_inc,
           np_sigma0_co_db, np_sigma0_cr_db, np_nesz_cr_db, np_ancillary_wind)

(***************************************************************************)
(* Inputs                                                                  *)
(***************************************************************************)
NPix == 2        \* pixels of a scene

MaxArgs == 6     \* most positional arguments tried

IncValues == {NaN, 22, 29, 31}

CoValues == {NaN, -1, 10, 100}

CrValues == {NaN, -1, 10, 100}

NeszValues == {NaN, 10, 100}

WindValues == [re : {NaN, 0, 4}, im : {NaN, -5, 0, 5}]

Pixels == [inc : IncValues, co : CoValues, cr : CrValues, nesz : NeszValues,
           anc : WindValues]

Px(i, co, cr, nesz, re, im) ==
    [inc |-> i, co |-> co, cr |-> cr, nesz |-> nesz, anc |-> [re |-> re, im |-> im]]

\* the pixels scenes are made of: a mirror pair, a dual-pol pixel above the
\* threshold, a guarded pixel, a pixel with a NaN cost grid and a pixel with
\* cross-pol below the noise floor
ScenePixels ==
    { Px(22, 10, NaN, NaN, 0, 5),      Px(22, 10, NaN, NaN, 0, -5),
      Px(22, 100, 100, 10, 4, 5),      Px(NaN, 10, 100, 10, 4, 0),
      Px(31, 100, NaN, 100, NaN, NaN), Px(31, 10, 10, 100, 0, 5) }

CoNames == { <<"sarwing_lut_", "sym">>, <<"sarwing_lut_", "half">>,
             <<"sarwing_lut_", "full">>, <<"cmod", "unknown">> }

CrNames == { <<"gmf_", "cr">>, <<"cmod", "unknown">>, None }

\* kwargs['model']: a (co-pol, cross-pol) tuple, one name, or absent
ModelKwargs ==
    { [tuple |-> TRUE, names |-> <<co, cr>>] : co \in CoNames, cr \in CrNames }
    \cup { [tuple |-> FALSE, names |-> <<co>>] : co \in CoNames \cup {None} }

Column(scene, f) == [k \in 1..Len(scene) |-> scene[k][f]]

\* the positional arguments of a copol (3) or dual-pol (5) call on a scene
SceneArgs(scene, n) ==
    IF n = 3
    THEN <<Column(scene, "inc"), Column(scene, "co"), Column(scene, "anc")>>
    ELSE <<Column(scene, "inc"), Column(scene, "co"), Column(scene, "cr"),
           Column(scene, "nesz"), Column(scene, "anc")>>

\* any other number of positional arguments, each a one-pixel array
OtherArgs == { [k \in 1..n |-> <<10>>] : n \in (0..MaxArgs) \ {3, 5} }

RECURSIVE Compositions(_)
Compositions(n) ==
    IF n = 0 THEN {<<>>}
    ELSE UNION { { <<k>> \o c : c \in Compositions(n - k) } : k \in 1..n }

\* no call of the LUT builder is in progress
IdleBuilder ==
    /\ lut_request = <<>>
    /\ lut_pc = "idle"
    /\ lut_result = <<>>

\* no Model is under construction
IdleModel ==
    /\ mdl_self = <<>>
    /\ mdl_pc = "idle"
    /\ mdl_log = <<>>
    /\ registry = <<>>
    /\ built = <<>>
    /\ got = <<>>

InitWith(scenes) ==
    /\ \/ \E scene \in scenes, n \in {3, 5} :
            /\ args = SceneArgs(scene, n)
            /\ chunks \in Compositions(Len(scene))
       \/ /\ args \in OtherArgs
          /\ chunks = <<1>>
    /\ model \in ModelKwargs
    /\ pc = "start"
    /\ err = NoErr
    /\ inc = <<>>
    /\ sigma0_co_db = <<>>
    /\ sigma0_cr_db = <<>>
    /\ nesz_cr_db = <<>>
    /\ ancillary_wind = <<>>
    /\ models_names = <<>>
    /\ blocks_done = {}
    /\ lut_calls = {}
    /\ px_locals = <<>>
    /\ ws = <<>>
    /\ IdleBuilder
    /\ IdleModel

\* scenes of NPix pixels
Init == InitWith([1..NPix -> ScenePixels])

\* one pixel, every combination of input values
InitPixel == InitWith([1..1 -> Pixels])

(***************************************************************************)
(* invert_from_model: argument unpacking and conversion to dB              *)
(***************************************************************************)
ToDb(a) == [k \in 1..Len(a) |-> LinToDb(a[k])]

Raise(type, name) ==
    /\ pc' = "error"
    /\ err' = [type |-> type, name |-> name]

invert_from_model ==
    /\ pc = "start"
    /\ IF Len(args) < 2
       THEN \* nan = args[1] * np.nan
            /\ Raise("IndexError", None)
            /\ UNCHANGED <<inc, sigma0_co_db, sigma0_cr_db, nesz_cr_db,
                           ancillary_wind, models_names>>
       ELSE IF Len(args) \notin {3, 5}
       THEN /\ Raise("TypeError", None)
            /\ UNCHANGED <<inc, sigma0_co_db, sigma0_cr_db, nesz_cr_db,
                           ancillary_wind, models_names>>
       ELSE
         LET nan == [k \in 1..Len(args[2]) |-> NaN]
         IN  /\ inc' = args[1]
             /\ sigma0_co_db' = ToDb(args[2])
             /\ sigma0_cr_db' = IF Len(args) = 3 THEN nan ELSE ToDb(args[3])
             /\ nesz_cr_db' = IF Len(args) = 3 THEN nan ELSE ToDb(args[4])
             /\ ancillary_wind' = args[Len(args)]
             /\ models_names' = IF model.tuple THEN model.names
                                ELSE <<model.names[1], None>>
             /\ pc' = "called"
             /\ err' = err
    /\ UNCHANGED <<args, model, chunks, blocks_done, lut_calls, px_locals, ws>>
    /\ UNCHANGED <<bvars, mvars>>

(***************************************************************************)
(* _invert_from_model_any: one call of _invert_from_model_numpy per block  *)
(* (dask.array.map_blocks), or one call on the whole arrays                *)
(***************************************************************************)
RECURSIVE SumTo(_, _)
SumTo(seq, n) == IF n = 0 THEN 0 ELSE seq[n] + SumTo(seq, n - 1)

BlockFirst(b) == SumTo(chunks, b - 1) + 1

BlockLast(b) == SumTo(chunks, b)

Block(a, b) == SubSeq(a, BlockFirst(b), BlockLast(b))

InvertBlock(b) ==
    /\ pc = "called"
    /\ b \in (1..Len(chunks)) \ blocks_done
    /\ \E r \in { invert_from_model_numpy(models_names, Block(inc, b),
                    Block(sigma0_co_db, b), Block(sigma0_cr_db, b),
                    Block(nesz_cr_db, b), Block(ancillary_wind, b)) } :
           /\ lut_calls' = lut_calls \cup r.calls
           /\ IF r.err # NoErr
              THEN /\ pc' = "error"
                   /\ err' = r.err
                   /\ UNCHANGED <<blocks_done, px_locals, ws>>
              ELSE /\ blocks_done' = blocks_done \cup {b}
                   /\ px_locals' = [k \in BlockFirst(b)..BlockLast(b) |->
                                        r.out[k - BlockFirst(b) + 1]] @@ px_locals
                   /\ ws' = [k \in BlockFirst(b)..BlockLast(b) |->
                                r.out[k - BlockFirst(b) + 1].ret] @@ ws
                   /\ pc' = IF blocks_done' = 1..Len(chunks) THEN "done" ELSE "called"
                   /\ err' = err
    /\ UNCHANGED <<args, model, chunks, inc, sigma0_co_db, sigma0_cr_db,
                   nesz_cr_db, ancillary_wind, models_names>>
    /\ UNCHANGED <<bvars, mvars>>

Next == invert_from_model \/ \E b \in 1..NPix : InvertBlock(b)

Spec == Init /\ [][Next]_vars

SpecPixel == InitPixel /\ [][Next]_vars

(***************************************************************************)
(* Properties of the inversion                                             *)
(***************************************************************************)
\* the co-pol LUT of a call that got past get_lut
CoLut == get_lut(models_names[1]).lut

\* C1: a pixel whose incidence or co-pol backscatter is NaN gets a NaN wind
\* speed, whatever its other inputs and the LUTs are.
C1_GuardNaN ==
    \A k \in DOMAIN ws :
        (IsNaN(args[1][k]) \/ IsNaN(args[2][k])) => IsNaN(ws[k])

\* a dual-pol call on a pixel with NaN incidence and every other input valid
C1_Witness ==
    /\ pc = "done"
    /\ Len(args) = 5
    /\ \E k \in DOMAIN ws :
        /\ IsNaN(args[1][k]) /\ args[2][k] = 100 /\ args[3][k] = 100
        /\ args[4][k] = 10 /\ args[5][k] = [re |-> 4, im |-> 5]
        /\ IsNaN(ws[k])

\* C2: for a pixel with cross-pol backscatter, the wind speed returned is the
\* dual-pol candidate when both the co-pol estimate and the candidate exceed
\* 5 m/s, and the co-pol estimate in every other case.
C2_OverridePolicy ==
    \A k \in DOMAIN ws :
        (Len(args) = 5 /\ ~IsNaN(args[3][k]) /\ ~px_locals[k].guard) =>
            IF px_locals[k].dual
            THEN /\ ~IsNaN(sigma0_cr_db[k])
                 /\ ws[k] = IF px_locals[k].wspd_co > 5 /\ px_locals[k].spd_dual > 5
                            THEN px_locals[k].spd_dual
                            ELSE px_locals[k].wspd_co
            ELSE /\ IsNaN(sigma0_cr_db[k])
                 /\ ws[k] = px_locals[k].wspd_co

\* co-pol 6 m/s, cross-pol 8 m/s: 8 m/s is returned
C2_Witness ==
    \E k \in DOMAIN ws :
        /\ px_locals[k].dual
        /\ px_locals[k].wspd_co = 6 /\ px_locals[k].spd_dual = 8 /\ ws[k] = 8

\* co-pol 4 m/s, cross-pol 8 m/s: 4 m/s is kept
C2_WitnessKept ==
    \E k \in DOMAIN ws :
        /\ px_locals[k].dual
        /\ px_locals[k].wspd_co = 4 /\ px_locals[k].spd_dual = 8 /\ ws[k] = 4

\* the cost J of the cell (w, p) of the incidence slice i of the co-pol LUT,
\* read from the LUT as stored: dims (incidence, wspd, phi)
CellCost(lut, i, w, p, k) ==
    JcoCell(lut.wspd[w] * CosT(lut.phi[p]), lut.wspd[w] * SinT(lut.phi[p]),
            lut.values[i][w][p],
            ancillary_wind[k].re,
            IF Phi180(lut.phi) THEN FAbs(ancillary_wind[k].im) ELSE ancillary_wind[k].im,
            sigma0_co_db[k])

\* C3: the co-pol estimate is the wind-speed coordinate of the cell
\* (lut_idx) of the incidence slice nearest to the pixel's incidence, and no
\* cell of that slice has a strictly smaller cost J.
C3_CopolArgmin ==
    \A k \in DOMAIN px_locals :
        ~px_locals[k].guard =>
            /\ px_locals[k].i_inc + 1 \in 1..Len(CoLut.incidence)
            /\ \A j \in 1..Len(CoLut.incidence) :
                  FAbs(CoLut.incidence[px_locals[k].i_inc + 1] - inc[k])
                      <= FAbs(CoLut.incidence[j] - inc[k])
            /\ px_locals[k].lut_idx[1] + 1 \in 1..Len(CoLut.wspd)
            /\ px_locals[k].lut_idx[2] + 1 \in 1..Len(CoLut.phi)
            /\ px_locals[k].wspd_co = CoLut.wspd[px_locals[k].lut_idx[1] + 1]
            /\ \A w \in 1..Len(CoLut.wspd), p \in 1..Len(CoLut.phi) :
                  ~FLess(CellCost(CoLut, px_locals[k].i_inc + 1, w, p, k),
                         CellCost(CoLut, px_locals[k].i_inc + 1,
                                  px_locals[k].lut_idx[1] + 1,
                                  px_locals[k].lut_idx[2] + 1, k))

\* a pixel nearest to the second incidence slice, whose arg-min is neither in
\* the first row nor in the first column of the cost grid
C3_Witness ==
    \E k \in DOMAIN px_locals :
        /\ px_locals[k].i_inc = 1
        /\ px_locals[k].lut_idx[1] > 0 /\ px_locals[k].lut_idx[2] > 0
        /\ ~IsNaN(ancillary_wind[k].re) /\ ~IsNaN(ancillary_wind[k].im)

\* pixels j and k differ only in the sign of the along-track component of
\* the ancillary wind
Mirror(j, k) ==
    /\ \A a \in 1..(Len(args) - 1) : args[a][j] = args[a][k]
    /\ args[Len(args)][j].re = args[Len(args)][k].re
    /\ ~IsNaN(args[Len(args)][j].im) /\ ~IsNaN(args[Len(args)][k].im)
    /\ args[Len(args)][j].im = -args[Len(args)][k].im

\* C4: with a co-pol LUT whose direction axis spans [0, 180], two pixels
\* that differ only in the sign of the along-track ancillary component get
\* the same wind speed.
C4_MirrorFold ==
    (pc = "done" /\ CoLut.phi[1] = 0 /\ CoLut.phi[Len(CoLut.phi)] = 180) =>
        \A j, k \in DOMAIN ws : Mirror(j, k) => ws[j] = ws[k]

\* a mirror pair inverted against the [0, 180] LUT, the wind being along-track
C4_Witness ==
    /\ pc = "done" /\ CoLut.phi[1] = 0 /\ CoLut.phi[Len(CoLut.phi)] = 180
    /\ \E j, k \in DOMAIN ws :
        /\ Mirror(j, k) /\ args[Len(args)][j].im = 5 /\ args[Len(args)][j].re = 0
        /\ ws[j] = 5 /\ ws[k] = 5

\* every value of the cost grid of pixel k is NaN: the ancillary wind is NaN,
\* or the cross-pol backscatter is present and its noise floor is NaN
Degenerate(k) ==
    \/ IsNaN(ancillary_wind[k].re) \/ IsNaN(ancillary_wind[k].im)
    \/ ~IsNaN(sigma0_cr_db[k]) /\ IsNaN(nesz_cr_db[k])

\* C7: a pixel that passes the NaN guard but whose cost grid is all NaN gets
\* a NaN wind speed, never a finite one picked from that grid.
C7_DegenerateIsNaN ==
    \A k \in DOMAIN ws :
        (~px_locals[k].guard /\ Degenerate(k)) => IsNaN(ws[k])

\* what does hold for such pixels: no error is raised for them and the
\* other pixels of the scene get the result they get when inverted alone
C7_DegenerateLocal ==
    (pc = "error" /\ err.type \notin {"IndexError", "TypeError"}) =>
        \/ get_lut(models_names[1]).err = err
        \/ /\ \E k \in DOMAIN sigma0_cr_db : ~IsNaN(sigma0_cr_db[k])
           /\ get_lut(models_names[2]).err = err

\* the inversion run once on the whole scene
WholeScene ==
    invert_from_model_numpy(models_names, inc, sigma0_co_db, sigma0_cr_db,
                            nesz_cr_db, ancillary_wind)

\* the inversion run on pixel k alone
OnePixel(k) ==
    invert_from_model_numpy(models_names, <<inc[k]>>, <<sigma0_co_db[k]>>,
                            <<sigma0_cr_db[k]>>, <<nesz_cr_db[k]>>,
                            <<ancillary_wind[k]>>)

\* C8: inverting a scene block by block gives every pixel the wind speed it
\* gets from one inversion of the whole scene, which is also the one it
\* gets when inverted alone; and the blocks fail only if the whole scene does.
C8_ChunkInvariance ==
    /\ pc = "done" =>
          \A whole \in {WholeScene} :
              /\ whole.err = NoErr
              /\ \A k \in DOMAIN ws :
                    /\ ws[k] = whole.out[k].ret
                    /\ \A one \in {OnePixel(k)} :
                          one.err = NoErr /\ ws[k] = one.out[1].ret
    /\ (pc = "error" /\ err.type \notin {"IndexError", "TypeError"}) =>
          WholeScene.err = err

\* a dual-pol scene split in two blocks, one with cross-pol and one without:
\* only the first loads the cross-pol LUT, and its pixel is refined to 8 m/s
C8_Witness ==
    /\ pc = "done" /\ Len(chunks) = 2 /\ Len(args) = 5
    /\ ~IsNaN(sigma0_cr_db[1]) /\ IsNaN(sigma0_cr_db[2])
    /\ ws[1] = 8 /\ px_locals[1].wspd_co = 6
    /\ ~IsNaN(ws[2]) /\ inc[1] # inc[2]

\* the 5-argument inversion of the scene of a 3-argument call, every cross-pol
\* value NaN and the noise floor being nesz
FiveArgs(nesz) ==
    invert_from_model_numpy(models_names, inc, sigma0_co_db,
                            ToDb([k \in 1..Len(inc) |-> NaN]), ToDb(nesz),
                            ancillary_wind)

\* the copol-only part of C9: a 3-argument call whose co-pol model is found
\* raises no error, looks up no cross-pol LUT and returns the co-pol
\* estimate, which is what the 5-argument call with NaN cross-pol returns
C9_CopolOnlyPath ==
    (Len(args) = 3 /\ pc # "start" /\ get_lut(models_names[1]).err = NoErr) =>
        /\ pc # "error"
        /\ lut_calls \subseteq {models_names[1]}
        /\ \A k \in DOMAIN ws : ws[k] = px_locals[k].wspd_co
        /\ pc = "done" =>
              \A nesz \in [1..Len(inc) -> NeszValues] :
                  \A five \in {FiveArgs(nesz)} :
                      /\ five.err = NoErr
                      /\ \A k \in DOMAIN ws : five.out[k].ret = ws[k]

\* C9: a 3-argument call is the copol-only inversion, and a call with any
\* number of positional arguments other than 3 or 5 is rejected with a
\* TypeError.
C9_CopolOnlyOrTypeError ==
    /\ C9_CopolOnlyPath
    /\ (Len(args) \notin {3, 5} /\ pc # "start") =>
          (pc = "error" /\ err.type = "TypeError")

(***************************************************************************)
(* gmfs: the LUT builder.  Axis values are counted in units of 0.05        *)
(* (degrees, m/s), so that a range may start between two grid points.  A   *)
(* LUT is [dims, incidence, u10, phi, units, values], values being keyed   *)
(* by coordinates: <<inc, u10, phi>>, or <<inc, u10>> without direction.   *)
(***************************************************************************)
inc_step_hr == 2     \* 0.1

u10_step_hr == 2     \* 0.1

phi_step_hr == 20    \* 1

inc_step_lr == 4     \* 0.2

u10_step_lr == 10    \* 0.5

phi_step_lr == 20    \* 1

\* np.arange(start, stop, step) for step > 0
Arange(start, stop, step) ==
    IF stop <= start THEN <<>>
    ELSE Arr([k \in 1..((stop - start + step - 1) \div step) |->
                  start + (k - 1) * step])

\* the values of a 1-D array
Values(a) == { a[k] : k \in 1..Len(a) }

\* utils.cmod_descr: the known models, with their default ranges
cmod_descr ==
    [n \in { <<"cmod", "co">>, <<"cmod", "nan">> } |->
        [gmf |-> <<n[2]>>, lut_path |-> None, inc_range |-> <<340, 344>>,
         u10_range |-> <<4, 8>>, phi_range |-> <<0, 40>>]]
    @@ [n \in { <<"cmod", "cr">> } |->
        [gmf |-> <<"cr">>, lut_path |-> <<"path", "missing">>,
         inc_range |-> <<340, 344>>, u10_range |-> <<10, 14>>, phi_range |-> None]]
    @@ [n \in { <<"cmod", "lut">>, <<"cmod", "lutnan">> } |->
        [gmf |-> None, lut_path |-> <<"path", n[2]>>, inc_range |-> <<340, 344>>,
         u10_range |-> <<4, 8>>, phi_range |-> <<0, 40>>]]

\* the analytical kernels: linear backscatter, NaN where the model is not
\* valid (here: "nan" at zero wind speed); the direction is NaN without phi
GmfKernel(kernel, one_inc, one_u10, one_phi) ==
    IF kernel = <<"nan">> /\ one_u10 = 0 THEN NaN
    ELSE IF kernel = <<"cr">> THEN 800 * (1 + one_u10)
    ELSE 800 * (1 + one_u10 + (one_inc % 7))
         + (IF IsNaN(one_phi) THEN 0 ELSE 800 * ((one_phi \div 20) % 2))

\* the coordinates of the cells of a grid with 2 or 3 dimensions
Cells(dims, inc_axis, u10_axis, phi_axis) ==
    IF Len(dims) = 2
    THEN Values(inc_axis) \X Values(u10_axis)
    ELSE Values(inc_axis) \X Values(u10_axis) \X Values(phi_axis)

\* gmfs.gmf on 1-D axes: the kernel on every cell; without phi the
\* direction is NaN and its dimension is squeezed
gmf(dims, inc_axis, u10_axis, phi_axis, name) ==
    IF name \notin DOMAIN cmod_descr \/ cmod_descr[name].gmf = None
    THEN [err |-> [type |-> "ValueError", name |-> None], values |-> <<>>]
    ELSE [err |-> NoErr,
          values |-> [c \in Cells(dims, inc_axis, u10_axis, phi_axis) |->
                        GmfKernel(cmod_descr[name].gmf, c[1], c[2],
                                  IF Len(dims) = 2 THEN NaN ELSE c[3])]]

\* xarray.DataArray.interp, linear, bounds_error=True.  A target on a grid
\* point belongs to the cell on its left or on its right, depending on the
\* interpolator: side is "left" or "right".
InGrid(grid, x) == Len(grid) >= 2 /\ grid[1] <= x /\ x <= grid[Len(grid)]

\* index of the lower grid point of the cell used for target x
CellLow(grid, x, side) ==
    IF side = "right"
    THEN Min({Len(grid) - 1, Max({k \in 1..Len(grid) : grid[k] <= x})})
    ELSE Max({1, Min({k \in 1..Len(grid) : grid[k] >= x}) - 1})

\* linear interpolation; NaN times a zero weight is NaN
Lerp(v0, v1, x0, x1, x) ==
    IF IsNaN(v0) \/ IsNaN(v1) THEN NaN
    ELSE (v0 * (x1 - x) + v1 * (x - x0)) \div (x1 - x0)

Interp2(lut, li, lu, t) ==
    Lerp(Lerp(lut.values[<<lut.incidence[li], lut.u10[lu]>>],
              lut.values[<<lut.incidence[li], lut.u10[lu + 1]>>],
              lut.u10[lu], lut.u10[lu + 1], t[2]),
         Lerp(lut.values[<<lut.incidence[li + 1], lut.u10[lu]>>],
              lut.values[<<lut.incidence[li + 1], lut.u10[lu + 1]>>],
              lut.u10[lu], lut.u10[lu + 1], t[2]),
         lut.incidence[li], lut.incidence[li + 1], t[1])

Interp3At(lut, i, u, lp, t) ==
    Lerp(lut.values[<<i, u, lut.phi[lp]>>], lut.values[<<i, u, lut.phi[lp + 1]>>],
         lut.phi[lp], lut.phi[lp + 1], t[3])

Interp3(lut, li, lu, lp, t) ==
    Lerp(Lerp(Interp3At(lut, lut.incidence[li], lut.u10[lu], lp, t),
              Interp3At(lut, lut.incidence[li], lut.u10[lu + 1], lp, t),
              lut.u10[lu], lut.u10[lu + 1], t[2]),
         Lerp(Interp3At(lut, lut.incidence[li + 1], lut.u10[lu], lp, t),
              Interp3At(lut, lut.incidence[li + 1], lut.u10[lu + 1], lp, t),
              lut.u10[lu], lut.u10[lu + 1], t[2]),
         lut.incidence[li], lut.incidence[li + 1], t[1])

\* lut.interp(incidence=..., u10=..., [phi=...], kwargs=dict(bounds_error=True))
interp(lut, inc_axis, u10_axis, phi_axis, side) ==
    IF \/ \E x \in Values(inc_axis) : ~InGrid(lut.incidence, x)
       \/ \E x \in Values(u10_axis) : ~InGrid(lut.u10, x)
       \/ Len(lut.dims) = 3 /\ \E x \in Values(phi_axis) : ~InGrid(lut.phi, x)
    THEN [err |-> [type |-> "ValueError", name |-> None], lut |-> lut]
    ELSE [err |-> NoErr,
          lut |-> [lut EXCEPT
              !.incidence = inc_axis, !.u10 = u10_axis, !.phi = phi_axis,
              !.values =
                  [t \in Cells(lut.dims, inc_axis, u10_axis, phi_axis) |->
                      IF Len(lut.dims) = 2
                      THEN Interp2(lut, CellLow(lut.incidence, t[1], side),
                                   CellLow(lut.u10, t[2], side), t)
                      ELSE Interp3(lut, CellLow(lut.incidence, t[1], side),
                                   CellLow(lut.u10, t[2], side),
                                   CellLow(lut.phi, t[3], side), t)]]]

\* the elements of axis a that lie in [lo, hi], in order
RECURSIVE Within(_, _, _)
Within(a, lo, hi) ==
    IF a = <<>> THEN <<>>
    ELSE (IF lo <= a[1] /\ a[1] <= hi THEN <<a[1]>> ELSE <<>>)
         \o Within(Tail(a), lo, hi)

\* lut.where(crop_cond, drop=True): crop_cond is the conjunction of one
\* condition per axis, so the cells kept are those of the cropped axes
Crop(lut, inc_range, u10_range, phi_range) ==
    [lut EXCEPT
        !.incidence = Within(lut.incidence, inc_range[1], inc_range[2]),
        !.u10 = Within(lut.u10, u10_range[1], u10_range[2]),
        !.phi = IF Len(lut.dims) = 2 THEN lut.phi
                ELSE Within(lut.phi, phi_range[1], phi_range[2]),
        !.values =
            [c \in Cells(lut.dims,
                         Within(lut.incidence, inc_range[1], inc_range[2]),
                         Within(lut.u10, u10_range[1], u10_range[2]),
                         IF Len(lut.dims) = 2 THEN lut.phi
                         ELSE Within(lut.phi, phi_range[1], phi_range[2])) |->
                lut.values[c]]]

\* np.count_nonzero(np.isnan(lut.values))
HasNaN(lut) == \E c \in DOMAIN lut.values : IsNaN(lut.values[c])

\* x or default
Or(x, default) == IF x = None THEN default ELSE x

\* _gmf_lut: the axes on which the kernel is sampled
SampledInc(inc_range, inc_step) ==
    Arange(inc_range[1] - inc_step, inc_range[2] + 2 * inc_step, inc_step)

SampledU10(u10_range, u10_step) ==
    Arange(Max({0, u10_range[1] - u10_step}), u10_range[2] + 2 * u10_step, u10_step)

SampledPhi(phi_range, phi_step) ==
    IF phi_range = None THEN <<>>
    ELSE Arange(phi_range[1], phi_range[2] + 2 * phi_step, phi_step)

\* _gmf_lut after the ranges are resolved: grid, kernel, interp, crop, check;
\* cause tells which raise statement failed the call
GmfLutRanges(name, inc_range, phi_range, u10_range, allow_interp, side) ==
    LET inc_step == IF allow_interp THEN inc_step_lr ELSE inc_step_hr
        u10_step == IF allow_interp THEN u10_step_lr ELSE u10_step_hr
        phi_step == IF allow_interp THEN phi_step_lr ELSE phi_step_hr
        incA == SampledInc(inc_range, inc_step)
        u10A == SampledU10(u10_range, u10_step)
        dims == IF phi_range = None THEN <<"incidence", "u10">>
                ELSE <<"incidence", "u10", "phi">>
        phiA == SampledPhi(phi_range, phi_step)
        g    == gmf(dims, incA, u10A, phiA, name)
        lut  == [dims |-> dims, incidence |-> incA, u10 |-> u10A, phi |-> phiA,
                 units |-> "", values |-> g.values]
        hr   == IF allow_interp
                THEN interp(lut,
                        Arange(inc_range[1], inc_range[2] + inc_step_hr, inc_step_hr),
                        Arange(u10_range[1], u10_range[2] + u10_step_hr, u10_step_hr),
                        IF phi_range = None THEN <<>>
                        ELSE Arange(phi_range[1], phi_range[2] + phi_step_hr,
                                    phi_step_hr),
                        side)
                ELSE [err |-> NoErr, lut |-> lut]
        out  == Crop(hr.lut, inc_range, u10_range, phi_range)
    IN  IF g.err # NoErr THEN [err |-> g.err, lut |-> NoLut, cause |-> "kernel"]
        ELSE IF hr.err # NoErr THEN [err |-> hr.err, lut |-> NoLut, cause |-> "bounds"]
        ELSE IF HasNaN(out)
        THEN [err |-> [type |-> "ValueError", name |-> name], lut |-> NoLut,
              cause |-> "nan"]
        ELSE [err |-> NoErr, lut |-> out, cause |-> ""]

\* gmfs._gmf_lut
private_gmf_lut(name, inc_range, phi_range, u10_range, allow_interp, side) ==
    IF name \notin DOMAIN cmod_descr
    THEN [err |-> [type |-> "KeyError", name |-> name], lut |-> NoLut,
          cause |-> "name"]
    ELSE GmfLutRanges(name, Or(inc_range, cmod_descr[name].inc_range),
                      Or(phi_range, cmod_descr[name].phi_range),
                      Or(u10_range, cmod_descr[name].u10_range),
                      allow_interp, side)

\* sarwing_luts.load_sarwing_lut: a tabulated LUT in dB, read from a file
load_sarwing_lut(path) ==
    IF path = None
    THEN [err |-> [type |-> "KeyError", name |-> None], lut |-> NoLut]
    ELSE IF path[2] = "missing"
    THEN [err |-> [type |-> "FileNotFoundError", name |-> None], lut |-> NoLut]
    ELSE [err |-> NoErr,
          lut |-> [dims |-> <<"incidence", "u10", "phi">>,
                   incidence |-> <<340, 342>>, u10 |-> <<4, 6>>, phi |-> <<0, 20>>,
                   units |-> "dB",
                   values |-> [c \in {340, 342} \X {4, 6} \X {0, 20} |->
                                IF path[2] = "lutnan" /\ c = <<342, 6, 20>>
                                THEN NaN
                                ELSE -30 + 10 * ((c[2] - 4) \div 2)
                                         + 10 * ((c[1] - 340) \div 2)]]]

\* 10. ** (lut / 10.); lut.attrs['units'] = 'linear'
LutToLin(lut) ==
    [lut EXCEPT !.units = "linear",
                !.values = [c \in DOMAIN lut.values |-> DbToLin(lut.values[c])]]

\* 10 * np.log10(np.clip(lut, 1e-15, None)); lut.attrs['units'] = 'dB'
\* (the logarithm is rounded down to a whole number of bels)
LutToDb(lut) ==
    [lut EXCEPT !.units = "dB",
                !.values = [c \in DOMAIN lut.values |-> LinToDbClip(lut.values[c])]]

\* the try block of gmf_lut: KeyError and FileNotFoundError are caught
TryLoad(name, sarwing) ==
    IF ~sarwing THEN [err |-> NoErr, lut |-> NoLut, loaded |-> FALSE]
    ELSE IF name \notin DOMAIN cmod_descr
    THEN [err |-> [type |-> "KeyError", name |-> None], lut |-> NoLut,
          loaded |-> FALSE]
    ELSE [err |-> load_sarwing_lut(cmod_descr[name].lut_path).err,
          lut |-> load_sarwing_lut(cmod_descr[name].lut_path).lut,
          loaded |-> load_sarwing_lut(cmod_descr[name].lut_path).err = NoErr]

\* the final check of gmf_lut: raise ValueError('Found nans in lut')
FinalCheck(lut, path) ==
    IF HasNaN(lut)
    THEN [err |-> [type |-> "ValueError", name |-> None], lut |-> NoLut,
          cause |-> "nan", path |-> path]
    ELSE [err |-> NoErr, lut |-> lut, cause |-> "", path |-> path]

\* gmfs.gmf_lut
gmf_lut(name, inc_range, phi_range, u10_range, allow_interp, sarwing, db, side) ==
    LET try == TryLoad(name, sarwing)
        r   == private_gmf_lut(name, inc_range, phi_range, u10_range,
                               allow_interp, side)
    IN  IF try.loaded
        THEN FinalCheck(IF db THEN try.lut ELSE LutToLin(try.lut), "loaded")
        ELSE IF r.err # NoErr
        THEN [err |-> r.err, lut |-> NoLut, cause |-> r.cause, path |-> "gmf"]
        ELSE FinalCheck(IF db THEN LutToDb(r.lut) ELSE r.lut, "gmf")

(***************************************************************************)
(* Calls of the LUT builder                                                *)
(***************************************************************************)
MaxSpan == 2     \* longest requested range, in high-resolution steps

\* the ranges starting at one of starts, both bounds on the dense grid
Ranges(starts, step) ==
    { <<a, a + k * step>> : a \in starts, k \in 0..MaxSpan }

IncRanges == {None} \cup Ranges({340}, inc_step_hr)

\* wind-speed ranges starting at 0, between 0 and the first step, and higher
U10Ranges == {None} \cup Ranges({0, 1, 10}, u10_step_hr)

PhiRanges == {None} \cup Ranges({0}, phi_step_hr)

BuilderNames == DOMAIN cmod_descr \cup { <<"cmod", "unknown">> }

\* no inversion is in progress
IdleInvert ==
    /\ args = <<>> /\ model = <<>> /\ chunks = <<>>
    /\ pc = "idle" /\ err = NoErr
    /\ inc = <<>> /\ sigma0_co_db = <<>> /\ sigma0_cr_db = <<>>
    /\ nesz_cr_db = <<>> /\ ancillary_wind = <<>> /\ models_names = <<>>
    /\ blocks_done = {} /\ lut_calls = {} /\ px_locals = <<>> /\ ws = <<>>

InitLut ==
    /\ lut_request \in
          [fn : {"gmf_lut", "_gmf_lut"}, name : BuilderNames,
           inc_range : IncRanges, phi_range : PhiRanges, u10_range : U10Ranges,
           allow_interp : BOOLEAN, sarwing : BOOLEAN, db : BOOLEAN,
           side : {"left", "right"}]
    \* sarwing and db are parameters of gmf_lut only
    /\ lut_request.fn = "_gmf_lut" => ~lut_request.sarwing /\ lut_request.db
    \* the interpolator is used with allow_interp only
    /\ ~lut_request.allow_interp => lut_request.side = "left"
    /\ lut_pc = "start"
    /\ lut_result = <<>>
    /\ IdleInvert
    /\ IdleModel

Return(r) ==
    /\ lut_result' = r
    /\ lut_pc' = IF r.err = NoErr THEN "returned" ELSE "error"
    /\ UNCHANGED <<lut_request, ivars, mvars>>

\* a direct call of _gmf_lut
CallPrivateGmfLut ==
    /\ lut_pc = "start"
    /\ lut_request.fn = "_gmf_lut"
    /\ \E r \in { private_gmf_lut(lut_request.name, lut_request.inc_range,
                     lut_request.phi_range, lut_request.u10_range,
                     lut_request.allow_interp, lut_request.side) } :
           Return([err |-> r.err, lut |-> r.lut, cause |-> r.cause, path |-> "gmf"])

\* a call of gmf_lut
CallGmfLut ==
    /\ lut_pc = "start"
    /\ lut_request.fn = "gmf_lut"
    /\ \E r \in { gmf_lut(lut_request.name, lut_request.inc_range,
                     lut_request.phi_range, lut_request.u10_range,
                     lut_request.allow_interp, lut_request.sarwing,
                     lut_request.db, lut_request.side) } :
           Return(r)

NextLut == CallPrivateGmfLut \/ CallGmfLut

SpecLut == InitLut /\ [][NextLut]_vars

(***************************************************************************)
(* Properties of the LUT builder                                           *)
(***************************************************************************)
\* the range the call asked for on an axis, or the default of the model
Requested(axis) == Or(lut_request[axis], cmod_descr[lut_request.name][axis])

\* a, a + step, ... up to b included
Dense(range, step) == Arange(range[1], range[2] + 1, step)

\* the axes of the LUT returned are the dense grids over the requested ranges
CropExact ==
    /\ lut_result.lut.incidence = Dense(Requested("inc_range"), inc_step_hr)
    /\ lut_result.lut.u10 = Dense(Requested("u10_range"), u10_step_hr)
    /\ IF Requested("phi_range") = None
       THEN lut_result.lut.dims = <<"incidence", "u10">>
       ELSE lut_result.lut.phi = Dense(Requested("phi_range"), phi_step_hr)

\* C5: whatever the requested ranges, with or without the interpolation
\* pass, each axis of the LUT built from a kernel is exactly the dense
\* high-resolution grid over the requested range, bounds included.
C5_CropExact ==
    (lut_pc = "returned" /\ lut_result.path = "gmf") => CropExact

\* what holds: the same, for every call but those without interpolation
\* whose wind-speed range starts strictly between 0 and the first step
C5_CropExactButNearZero ==
    (/\ lut_pc = "returned" /\ lut_result.path = "gmf"
     /\ \/ lut_request.allow_interp
        \/ Requested("u10_range")[1] \notin 1..(u10_step_hr - 1)) => CropExact

\* the calls C5_CropExactButNearZero is about do happen
C5_Reached ==
    /\ lut_pc = "returned" /\ lut_result.path = "gmf"
    /\ ~lut_request.allow_interp /\ lut_request.u10_range = <<10, 14>>
    /\ lut_result.lut.u10 = <<10, 12, 14>>
    /\ lut_request.inc_range = <<340, 344>> /\ lut_request.phi_range = <<0, 40>>

\* C6: a LUT returned by gmf_lut or _gmf_lut holds no NaN, and a build that
\* fails because of a NaN fails with an error naming the model.
C6_NoNaNOrNamed ==
    /\ lut_pc = "returned" => ~HasNaN(lut_result.lut)
    /\ (lut_pc = "error" /\ lut_result.cause = "nan") =>
          lut_result.err.name = lut_request.name

\* what holds: no LUT with a NaN is returned, and the analytical path names
\* the model
C6_NoNaNReturned ==
    /\ lut_pc = "returned" => ~HasNaN(lut_result.lut)
    /\ (lut_pc = "error" /\ lut_result.cause = "nan" /\ lut_result.path = "gmf") =>
          lut_result.err = [type |-> "ValueError", name |-> lut_request.name]

(***************************************************************************)
(* models: Model.to_lut.  A LUT is here [units, dims, values, model]:      *)
(* the 'units' attribute ("" when absent), the dimension names, the values *)
(* in C order and the 'model' attribute ("" when absent).                  *)
(***************************************************************************)
NoUnits == "None"    \* units=None

\* Model._check_lut
check_lut(lut) ==
    IF lut.units = "" THEN [type |-> "KeyError", name |-> None]
    ELSE IF lut.units \notin {"linear", "dB"}
    THEN [type |-> "ValueError", name |-> None]
    ELSE IF Len(lut.dims) = 2 /\ lut.dims # <<"incidence", "wspd">>
    THEN [type |-> "IndexError", name |-> None]
    ELSE IF Len(lut.dims) = 3 /\ lut.dims # <<"incidence", "wspd", "phi">>
    THEN [type |-> "IndexError", name |-> None]
    ELSE IF Len(lut.dims) \notin {2, 3}
    THEN [type |-> "IndexError", name |-> None]
    ELSE NoErr

\* arithmetic on a DataArray drops its attributes; 'units' is set afterwards
ConvertedTo(lut, units) ==
    [units |-> units, dims |-> lut.dims, model |-> "",
     values |-> [k \in 1..Len(lut.values) |->
                    IF units = "dB" THEN LinToDb(lut.values[k])
                    ELSE DbToLin(lut.values[k])]]

\* a conversion made whatever the units of the raw LUT are
ConvertAlways(lut, units) == ConvertedTo(lut, units)

\* the if/elif chain of to_lut for units 'dB' or 'linear': final_lut
Convert(lut, units) ==
    IF units = "dB"
    THEN IF lut.units = "dB" THEN lut
         ELSE IF lut.units = "linear" THEN ConvertedTo(lut, "dB")
         ELSE lut
    ELSE IF lut.units = "linear" THEN lut
         ELSE IF lut.units = "dB" THEN ConvertedTo(lut, "linear")
         ELSE lut

\* Model.to_lut(units); steps lists what was run before the return or raise
to_lut(self, units) ==
    IF check_lut(self.raw) # NoErr
    THEN [err |-> check_lut(self.raw), lut |-> self.raw,
          steps |-> <<"_raw_lut", "_check_lut">>]
    ELSE IF units = NoUnits
    THEN [err |-> NoErr, lut |-> self.raw, steps |-> <<"_raw_lut", "_check_lut">>]
    ELSE IF units \notin {"dB", "linear"}
    THEN [err |-> [type |-> "ValueError", name |-> None], lut |-> self.raw,
          steps |-> <<"_raw_lut", "_check_lut">>]
    ELSE [err |-> NoErr,
          lut |-> [Convert(self.raw, units) EXCEPT !.model = self.name],
          steps |-> <<"_raw_lut", "_check_lut", "convert">>]

(***************************************************************************)
(* A Model and the calls of its to_lut                                     *)
(***************************************************************************)
MaxCells == 2    \* values of a raw LUT

MaxConv == 2     \* calls of to_lut in a row

\* values a raw LUT may hold, by units: linear in units of 1e-3, or dB
RawValues(units) ==
    IF units = "dB" THEN {NaN, -30, -20, 0}
    ELSE {NaN, -1, 0, 1, 100}

RawLuts ==
    UNION { [units : {u},
             dims : { <<"incidence", "wspd">>, <<"incidence", "wspd", "phi">>,
                      <<"wspd", "incidence">> },
             values : [1..MaxCells -> RawValues(u)],
             model : {""}] : u \in {"linear", "dB", "K", ""} }

NoPol == "None"      \* pol=None

\* the instance made by the n-th construction
Instance(n, name, pol) == [id |-> n, name |-> name, pol |-> pol]

\* Model.__init__: self.__class__._available_models[name] = self
Registered(reg, self) == (self.name :> self) @@ reg

InitModel ==
    /\ mdl_self \in [name : {"cmod"}, raw : RawLuts]
    /\ mdl_pc = "constructed"
    /\ mdl_log = <<>>
    /\ built = <<Instance(1, mdl_self.name, NoPol)>>
    /\ registry = Registered(<<>>, Instance(1, mdl_self.name, NoPol))
    /\ got = <<>>
    /\ IdleInvert
    /\ IdleBuilder

\* model.to_lut(units)
ToLut(units) ==
    /\ mdl_pc = "constructed"
    /\ Len(mdl_log) < MaxConv
    /\ \E r \in { to_lut(mdl_self, units) } :
          /\ mdl_log' = Append(mdl_log, [units |-> units, raw |-> mdl_self.raw,
                                         err |-> r.err, lut |-> r.lut,
                                         steps |-> r.steps])
          /\ mdl_pc' = IF r.err = NoErr THEN "returned" ELSE "error"
    /\ UNCHANGED <<mdl_self, registry, built, got, ivars, bvars>>

\* Model.__init__ of a model whose _raw_lut returns the LUT just obtained
Rewrap ==
    /\ mdl_pc = "returned"
    /\ mdl_self' = [mdl_self EXCEPT !.raw = mdl_log[Len(mdl_log)].lut]
    /\ mdl_pc' = "constructed"
    /\ built' = Append(built, Instance(Len(built) + 1, mdl_self.name, NoPol))
    /\ registry' = Registered(registry, Instance(Len(built) + 1, mdl_self.name, NoPol))
    /\ UNCHANGED <<mdl_log, got, ivars, bvars>>

NextModel == (\E units \in {NoUnits, "linear", "dB", "K"} : ToLut(units)) \/ Rewrap

SpecModel == InitModel /\ [][NextModel]_vars

(***************************************************************************)
(* Properties of Model.to_lut                                              *)
(***************************************************************************)
\* C10: to_lut(units=U), U being 'linear' or 'dB', returns a LUT tagged U,
\* with the values of the raw LUT when that one is tagged U already; and
\* converting its result to U once more changes neither values nor tag.
C10_UnitNoOp ==
    \A k \in 1..Len(mdl_log) :
        (mdl_log[k].units \in {"linear", "dB"} /\ mdl_log[k].err = NoErr) =>
            /\ mdl_log[k].lut.units = mdl_log[k].units
            /\ mdl_log[k].raw.units = mdl_log[k].units =>
                  mdl_log[k].lut.values = mdl_log[k].raw.values
            /\ (k < Len(mdl_log) /\ mdl_log[k + 1].units = mdl_log[k].units) =>
                  /\ mdl_log[k + 1].err = NoErr
                  /\ mdl_log[k + 1].lut.units = mdl_log[k].units
                  /\ mdl_log[k + 1].lut.values = mdl_log[k].lut.values

\* a linear LUT converted to dB, the values changing, then to dB again
C10_Witness ==
    /\ Len(mdl_log) = 2
    /\ mdl_log[1].units = "dB" /\ mdl_log[2].units = "dB"
    /\ mdl_log[1].raw.units = "linear" /\ mdl_log[1].raw.values[1] = 100
    /\ mdl_log[1].lut.values[1] = -10
    /\ mdl_log[2].raw = mdl_log[1].lut
    /\ mdl_log[2].err = NoErr /\ mdl_log[2].lut.values[1] = -10

\* a call of to_lut with a unit string that is neither 'linear' nor 'dB'
BadUnit(k) == mdl_log[k].units \notin {NoUnits, "linear", "dB"}

\* C11: to_lut called with an unsupported unit string fails, returns no LUT,
\* and fails before the raw LUT is built or checked.
C11_BadUnitFailsFirst ==
    \A k \in 1..Len(mdl_log) :
        BadUnit(k) =>
            /\ mdl_log[k].err # NoErr
            /\ k = Len(mdl_log) /\ mdl_pc = "error"
            /\ mdl_log[k].steps = <<>>

\* what holds: the call fails and nothing is returned, but only after the
\* raw LUT was built and checked; a raw LUT that fails the check hides the
\* error about the unit
C11_BadUnitFails ==
    \A k \in 1..Len(mdl_log) :
        BadUnit(k) =>
            /\ mdl_log[k].err # NoErr
            /\ k = Len(mdl_log) /\ mdl_pc = "error"
            /\ mdl_log[k].steps = <<"_raw_lut", "_check_lut">>
            /\ mdl_log[k].err = IF check_lut(mdl_log[k].raw) # NoErr
                                THEN check_lut(mdl_log[k].raw)
                                ELSE [type |-> "ValueError", name |-> None]

(***************************************************************************)
(* Properties of the inversion, continued                                  *)
(***************************************************************************)
\* the co-pol name of the call is a name, and no GMF or LUT is found for it
CoUnknown ==
    /\ models_names # <<>> /\ models_names[1] # None
    /\ get_lut(models_names[1]).err # NoErr

\* the co-pol LUT is found, the scene has cross-pol data and the cross-pol
\* name is a name for which no GMF or LUT is found
CrUnknown ==
    /\ models_names # <<>> /\ get_lut(models_names[1]).err = NoErr
    /\ models_names[2] # None /\ get_lut(models_names[2]).err # NoErr
    /\ \E k \in DOMAIN sigma0_cr_db : ~IsNaN(sigma0_cr_db[k])

\* the name the error has to tell
Offending == IF CoUnknown THEN models_names[1] ELSE models_names[2]

\* C12: with an unknown co-pol name, or an unknown cross-pol name and
\* cross-pol data, the call fails with an error naming that name, before
\* the kernel is evaluated for any pixel, and no wind speed is produced.
C12_UnknownFailsFast ==
    (CoUnknown \/ CrUnknown) =>
        /\ pc # "done"
        /\ pc = "error" =>
              /\ err = [type |-> "ValueError", name |-> Offending]
              /\ px_locals = <<>>
              /\ ws = <<>>

\* what holds: the call never completes and the error names the name; the
\* kernel is not evaluated for any pixel of the block that fails, nor for
\* any pixel at all when the co-pol name is the unknown one or the scene is
\* one block
C12_UnknownFails ==
    (CoUnknown \/ CrUnknown) =>
        /\ pc # "done"
        /\ pc = "error" =>
              /\ err = [type |-> "ValueError", name |-> Offending]
              /\ (CoUnknown \/ Len(chunks) = 1) => (px_locals = <<>> /\ ws = <<>>)
              /\ \A k \in DOMAIN px_locals :
                    \E b \in blocks_done : BlockFirst(b) <= k /\ k <= BlockLast(b)
              /\ \E b \in (1..Len(chunks)) \ blocks_done :
                    \E k \in BlockFirst(b)..BlockLast(b) : ~IsNaN(sigma0_cr_db[k]) \/ CoUnknown

\* the failures C12_UnknownFails is about do happen, for either name
C12_Reached ==
    /\ pc = "error" /\ CrUnknown /\ Len(chunks) = 1 /\ Len(args) = 5
    /\ err.name = <<"cmod", "unknown">>

(***************************************************************************)
(* models: the registry of models, get_model and available_models          *)
(***************************************************************************)
MaxModels == 3   \* constructions of a Model

ModelNames == {"cmod5", "cmodms1ahw"}

Pols == {NoPol, "VV", "VH"}

\* models.available_models(pol)
available_models(reg, pol) ==
    IF pol = NoPol THEN reg
    ELSE [n \in { x \in DOMAIN reg : reg[x].pol = pol } |-> reg[n]]

\* models.get_model(name): name.is_model tells whether a Model was passed
get_model(reg, name) ==
    IF name.is_model THEN [err |-> NoErr, model |-> name.model]
    ELSE IF name.name \notin DOMAIN available_models(reg, NoPol)
    THEN [err |-> [type |-> "KeyError", name |-> None], model |-> <<>>]
    ELSE [err |-> NoErr, model |-> available_models(reg, NoPol)[name.name]]

InitRegistry ==
    /\ registry = <<>>
    /\ built = <<>>
    /\ got = <<>>
    /\ mdl_self = <<>> /\ mdl_pc = "idle" /\ mdl_log = <<>>
    /\ IdleInvert
    /\ IdleBuilder

\* Model(name, pol=pol)
Construct(name, pol) ==
    /\ Len(built) < MaxModels
    /\ built' = Append(built, Instance(Len(built) + 1, name, pol))
    /\ registry' = Registered(registry, Instance(Len(built) + 1, name, pol))
    /\ got' = <<>>
    /\ UNCHANGED <<mdl_self, mdl_pc, mdl_log, ivars, bvars>>

\* get_model(name) with a name
GetModelByName(name) ==
    /\ got' = [fn |-> "get_model", arg |-> name,
               ret |-> get_model(registry, [is_model |-> FALSE, name |-> name,
                                            model |-> <<>>])]
    /\ UNCHANGED <<registry, built, mdl_self, mdl_pc, mdl_log, ivars, bvars>>

\* get_model(model) with one of the models constructed
GetModelByModel(n) ==
    /\ n \in 1..Len(built)
    /\ got' = [fn |-> "get_model", arg |-> built[n].name,
               ret |-> get_model(registry, [is_model |-> TRUE, name |-> "",
                                            model |-> built[n]])]
    /\ UNCHANGED <<registry, built, mdl_self, mdl_pc, mdl_log, ivars, bvars>>

\* available_models(pol)
AvailableModels(pol) ==
    /\ got' = [fn |-> "available_models", arg |-> pol,
               ret |-> [err |-> NoErr, model |-> available_models(registry, pol)]]
    /\ UNCHANGED <<registry, built, mdl_self, mdl_pc, mdl_log, ivars, bvars>>

NextRegistry ==
    \/ \E name \in ModelNames, pol \in Pols : Construct(name, pol)
    \/ \E name \in ModelNames \cup {"unknown"} : GetModelByName(name)
    \/ \E n \in 1..MaxModels : GetModelByModel(n)
    \/ \E pol \in Pols : AvailableModels(pol)

SpecRegistry == InitRegistry /\ [][NextRegistry]_vars

(***************************************************************************)
(* Properties of the registry                                              *)
(***************************************************************************)
\* the constructions made under a name, in order
BuiltAs(name) == { n \in 1..Len(built) : built[n].name = name }

\* C13: each registered name maps to one model, the first one constructed
\* under that name: a later construction under the same name replaces
\* nothing, and get_model and available_models keep returning the first.
C13_RegistryImmutable ==
    /\ DOMAIN registry = { built[n].name : n \in 1..Len(built) }
    /\ \A name \in DOMAIN registry : registry[name] = built[Min(BuiltAs(name))]
    /\ (got # <<>> /\ got.fn = "get_model" /\ got.ret.err = NoErr) =>
          got.ret.model = built[Min(BuiltAs(got.arg))]
    /\ (got # <<>> /\ got.fn = "available_models") =>
          \A name \in DOMAIN got.ret.model :
              got.ret.model[name] = built[Min(BuiltAs(name))]

\* what holds: each name constructed maps to one model, the last one
\* constructed under that name, which is what get_model(name) and
\* available_models return; get_model(model) returns the model passed
C13_RegistryLastWins ==
    /\ DOMAIN registry = { built[n].name : n \in 1..Len(built) }
    /\ \A name \in DOMAIN registry : registry[name] = built[Max(BuiltAs(name))]
    /\ (got # <<>> /\ got.fn = "get_model") =>
          IF got.ret.err = NoErr
          THEN \E n \in BuiltAs(got.arg) : got.ret.model = built[n]
          ELSE BuiltAs(got.arg) = {}
    /\ (got # <<>> /\ got.fn = "available_models") =>
          /\ DOMAIN got.ret.model =
                { name \in DOMAIN registry :
                      got.arg = NoPol \/ registry[name].pol = got.arg }
          /\ \A name \in DOMAIN got.ret.model :
                got.ret.model[name] = registry[name]

\* two constructions under one name, then a lookup of that name
C13_Reached ==
    /\ got # <<>> /\ got.fn = "get_model" /\ got.arg = "cmod5"
    /\ Cardinality(BuiltAs("cmod5")) = 2
    /\ got.ret.err = NoErr /\ got.ret.model.id = Max(BuiltAs("cmod5"))

(***************************************************************************)
(* gmfs: gmf and its dispatch on the rank of u10.  A scalar is a number, a *)
(* 1-D array a sequence; an array of higher rank is given by its elements  *)
(* in C order, a sequence again, its shape being that of the inputs.       *)
(***************************************************************************)
\* gmf: the function type chosen from numba and the rank of u10
Ftype(numba, ndim) ==
    IF numba
    THEN IF ndim = 0 THEN <<"numba_njit">>
         ELSE IF ndim = 1 THEN <<"numba_guvectorize">>
         ELSE <<"numba_vectorize">>
    ELSE IF ndim = 0 THEN None
         ELSE IF ndim = 1 THEN <<"guvectorize">>
         ELSE <<"vectorize">>

\* gmfs._get_gmf_func: the kernel of the model wrapped for ftype
get_gmf_func(name, ftype) ==
    IF name \notin DOMAIN cmod_descr
    THEN [err |-> [type |-> "KeyError", name |-> name], kernel |-> None]
    ELSE IF cmod_descr[name].gmf = None
    THEN [err |-> [type |-> "NotImplementedError", name |-> name], kernel |-> None]
    ELSE IF ftype \in {None, <<"numba_njit">>, <<"numba_vectorize">>,
                       <<"numba_guvectorize">>}
    THEN [err |-> NoErr, kernel |-> cmod_descr[name].gmf]
    ELSE [err |-> [type |-> "TypeError", name |-> None], kernel |-> None]

\* the guvectorize'd function: sigma0_out[i_inc, i_u10, i_phi]
OuterProduct(kernel, inc_axis, u10_axis, phi_axis) ==
    [i_inc \in 1..Len(inc_axis) |->
        [i_u10 \in 1..Len(u10_axis) |->
            [i_phi \in 1..Len(phi_axis) |->
                GmfKernel(kernel, inc_axis[i_inc], u10_axis[i_u10], phi_axis[i_phi])]]]

\* np.squeeze(sigma0_lin, axis=2)
Squeeze2(a) == [i \in 1..Len(a) |-> [j \in 1..Len(a[i]) |-> a[i][j][1]]]

\* the vectorize'd function: one value per element
Elementwise(kernel, inc_arr, u10_arr, phi_arr) ==
    [p \in 1..Len(u10_arr) |-> GmfKernel(kernel, inc_arr[p], u10_arr[p], phi_arr[p])]

\* gmf_func(inc, u10, phi) and the squeeze, by rank; has_phi: phi is not None
GmfApply(kernel, ndim, inc_in, u10_in, phi_in, has_phi) ==
    IF ndim = 0
    THEN GmfKernel(kernel, inc_in, u10_in, IF has_phi THEN phi_in ELSE FMul(u10_in, NaN))
    ELSE IF ndim = 1
    THEN IF has_phi THEN OuterProduct(kernel, inc_in, u10_in, phi_in)
         ELSE Squeeze2(OuterProduct(kernel, inc_in, u10_in, <<NaN>>))
    ELSE Elementwise(kernel, inc_in, u10_in,
                     IF has_phi THEN phi_in
                     ELSE [p \in 1..Len(u10_in) |-> FMul(u10_in[p], NaN)])

\* gmfs.gmf(inc, u10, phi, name, numba), ndim being the rank of u10
gmf_ranked(ndim, inc_in, u10_in, phi_in, has_phi, name, numba) ==
    IF name \notin DOMAIN cmod_descr \/ cmod_descr[name].gmf = None
    THEN [err |-> [type |-> "ValueError", name |-> None], out |-> <<>>]
    ELSE IF get_gmf_func(name, Ftype(numba, ndim)).err # NoErr
    THEN [err |-> get_gmf_func(name, Ftype(numba, ndim)).err, out |-> <<>>]
    ELSE [err |-> NoErr,
          out |-> GmfApply(get_gmf_func(name, Ftype(numba, ndim)).kernel, ndim,
                           inc_in, u10_in, phi_in, has_phi)]

(***************************************************************************)
(* The calls of gmf: one call per behaviour, on a scalar, on 1-D axes or   *)
(* on arrays of one common shape.                                          *)
(***************************************************************************)
MaxAxis == 2     \* longest coordinate array of a call of gmf

GmfIncs == {340, 342}
GmfU10s == {0, 4}
GmfPhis == {0, 20}

Arrays(S, n) == UNION { [1..k -> S] : k \in 1..n }

\* the arguments of a call on scalars
ScalarCalls ==
    [fn : {"gmf"}, ndim : {0}, inc : GmfIncs, u10 : GmfU10s, phi : GmfPhis,
     has_phi : BOOLEAN, name : BuilderNames, numba : BOOLEAN]

\* the arguments of a call on 1-D axes
AxisCalls ==
    [fn : {"gmf"}, ndim : {1}, inc : Arrays(GmfIncs, MaxAxis),
     u10 : Arrays(GmfU10s, MaxAxis), phi : Arrays(GmfPhis, MaxAxis),
     has_phi : BOOLEAN, name : BuilderNames, numba : BOOLEAN]

\* the arguments of a call on arrays of rank 2 or more, all of one shape
ArrayCalls ==
    { c \in [fn : {"gmf"}, ndim : {2}, inc : Arrays(GmfIncs, MaxAxis),
             u10 : Arrays(GmfU10s, MaxAxis), phi : Arrays(GmfPhis, MaxAxis),
             has_phi : BOOLEAN, name : BuilderNames, numba : BOOLEAN] :
        Len(c.inc) = Len(c.u10) /\ Len(c.phi) = Len(c.u10) }

\* phi = None is one call, whatever the unused value
GmfCalls ==
    { c \in ScalarCalls \cup AxisCalls \cup ArrayCalls :
        ~c.has_phi => IF c.ndim = 0 THEN c.phi = 0
                      ELSE /\ \A q \in 1..Len(c.phi) : c.phi[q] = 0
                           /\ c.ndim = 1 => Len(c.phi) = 1 }

InitGmf ==
    /\ lut_request \in GmfCalls
    /\ lut_pc = "start"
    /\ lut_result = <<>>
    /\ IdleInvert
    /\ IdleModel

\* a call of gmf that returns
GmfReturns ==
    /\ lut_pc = "start"
    /\ lut_request.fn = "gmf"
    /\ \E r \in { gmf_ranked(lut_request.ndim, lut_request.inc, lut_request.u10,
                             lut_request.phi, lut_request.has_phi,
                             lut_request.name, lut_request.numba) } :
           r.err = NoErr /\ Return(r)

\* a call of gmf that raises
GmfRaises ==
    /\ lut_pc = "start"
    /\ lut_request.fn = "gmf"
    /\ \E r \in { gmf_ranked(lut_request.ndim, lut_request.inc, lut_request.u10,
                             lut_request.phi, lut_request.has_phi,
                             lut_request.name, lut_request.numba) } :
           r.err # NoErr /\ Return(r)

NextGmf == GmfReturns \/ GmfRaises

SpecGmf == InitGmf /\ [][NextGmf]_vars

\* the model of the call has an analytical kernel
HasKernel == lut_request.name \in DOMAIN cmod_descr /\ cmod_descr[lut_request.name].gmf # None

\* the direction of element q of the call, NaN without phi
PhiAt(q) == IF lut_request.has_phi THEN lut_request.phi[q] ELSE NaN

\* the returned values are those of the scalar kernel, cell by cell
AgreesWithKernel ==
    \A kernel \in { cmod_descr[lut_request.name].gmf } : \A out \in { lut_result.out } :
        IF lut_request.ndim = 0
        THEN out = GmfKernel(kernel, lut_request.inc, lut_request.u10,
                             IF lut_request.has_phi THEN lut_request.phi ELSE NaN)
        ELSE IF lut_request.ndim = 1
        THEN /\ Len(out) = Len(lut_request.inc)
             /\ \A i \in 1..Len(lut_request.inc) :
                  /\ Len(out[i]) = Len(lut_request.u10)
                  /\ \A j \in 1..Len(lut_request.u10) :
                       IF lut_request.has_phi
                       THEN /\ Len(out[i][j]) = Len(lut_request.phi)
                            /\ \A k \in 1..Len(lut_request.phi) :
                                 out[i][j][k] = GmfKernel(kernel, lut_request.inc[i],
                                                    lut_request.u10[j], lut_request.phi[k])
                       ELSE out[i][j] = GmfKernel(kernel, lut_request.inc[i],
                                                  lut_request.u10[j], NaN)
        ELSE /\ Len(out) = Len(lut_request.u10)
             /\ \A q \in 1..Len(lut_request.u10) :
                  out[q] = GmfKernel(kernel, lut_request.inc[q], lut_request.u10[q], PhiAt(q))

\* C14: every call of gmf for a model with a kernel returns, and returns
\* the values of the scalar kernel: out[i,j,k] = kernel(inc[i], u10[j],
\* phi[k]) on 1-D axes (2-D without phi), out[p] = kernel(inc[p], u10[p],
\* phi[p]) on arrays, kernel(inc, u10, phi) on scalars
C14_PathsAgree ==
    (lut_pc # "start" /\ lut_request.fn = "gmf" /\ HasKernel)
        => (lut_pc = "returned" /\ AgreesWithKernel)

\* what holds instead: the paths agree with the kernel when they return,
\* and they return with numba, and without numba on scalars only
C14_NumbaPathsAgree ==
    (lut_pc # "start" /\ lut_request.fn = "gmf" /\ HasKernel)
        => /\ lut_pc = "returned" <=> (lut_request.numba \/ lut_request.ndim = 0)
           /\ lut_pc = "returned" => AgreesWithKernel
           /\ lut_pc = "error" => lut_result.err.type = "TypeError"

\* a call on 1-D axes without numba, for a model with a kernel, has ended
C14_Reached ==
    /\ lut_pc = "error" /\ lut_request.fn = "gmf" /\ HasKernel
    /\ ~lut_request.numba /\ lut_request.ndim = 1

\* the three paths have returned values
C14_ReachedReturned ==
    /\ lut_pc = "returned" /\ lut_request.fn = "gmf" /\ lut_request.ndim = 1
    /\ lut_request.has_phi /\ Len(lut_request.inc) = 2 /\ Len(lut_request.phi) = 2

(***************************************************************************)
(* Properties of the LUT builder, continued: the axes the kernel is        *)
(* sampled on.                                                             *)
(***************************************************************************)
\* the call has sampled the kernel of its model
KernelSampled ==
    /\ lut_pc # "start" /\ lut_request.fn \in {"gmf_lut", "_gmf_lut"}
    /\ lut_result.path = "gmf" /\ lut_result.cause \notin {"name", "kernel"}

\* the steps of the sampled axes of the call
StepOf(lr, hr) == IF lut_request.allow_interp THEN lr ELSE hr

\* the axes the call has sampled the kernel on
IncSampled == SampledInc(Requested("inc_range"), StepOf(inc_step_lr, inc_step_hr))
U10Sampled == SampledU10(Requested("u10_range"), StepOf(u10_step_lr, u10_step_hr))
PhiSampled == SampledPhi(Requested("phi_range"), StepOf(phi_step_lr, phi_step_hr))

\* consecutive coordinates of axis are step apart
Spaced(axis, step) == \A k \in 1..(Len(axis) - 1) : axis[k + 1] = axis[k] + step

\* axis runs from a - 2*step to b + 2*step, [a, b] being range
PaddedByTwo(axis, range, step) ==
    /\ axis # <<>>
    /\ axis[1] = range[1] - 2 * step
    /\ axis[Len(axis)] = range[2] + 2 * step
    /\ Spaced(axis, step)

\* axis is step-spaced from first to a last coordinate one step or more,
\* and less than two steps, above b
PaddedAbove(axis, first, range, step) ==
    /\ axis # <<>>
    /\ axis[1] = first
    /\ axis[Len(axis)] >= range[2] + step
    /\ axis[Len(axis)] < range[2] + 2 * step
    /\ Spaced(axis, step)

\* C15: with interpolation, each axis the kernel is sampled on runs from
\* a - 2*step to b + 2*step at the low-resolution step (0.2 deg, 0.5 m/s,
\* 1 deg), [a, b] being the requested range of the axis
C15_PaddedTwoSteps ==
    (KernelSampled /\ lut_request.allow_interp) =>
        /\ PaddedByTwo(IncSampled, Requested("inc_range"), inc_step_lr)
        /\ PaddedByTwo(U10Sampled, Requested("u10_range"), u10_step_lr)
        /\ Requested("phi_range") # None =>
              PaddedByTwo(PhiSampled, Requested("phi_range"), phi_step_lr)

\* what holds instead: the axes cover the requested ranges with one step
\* below (none for the direction, and never below 0 for the wind speed) and
\* between one and two steps above
C15_PaddedOneStep ==
    (KernelSampled /\ lut_request.allow_interp) =>
        /\ PaddedAbove(IncSampled, Requested("inc_range")[1] - inc_step_lr,
                       Requested("inc_range"), inc_step_lr)
        /\ PaddedAbove(U10Sampled, Max({0, Requested("u10_range")[1] - u10_step_lr}),
                       Requested("u10_range"), u10_step_lr)
        /\ Requested("phi_range") # None =>
              PaddedAbove(PhiSampled, Requested("phi_range")[1],
                          Requested("phi_range"), phi_step_lr)

\* a LUT has been built with interpolation over three requested ranges
C15_Reached ==
    /\ KernelSampled /\ lut_pc = "returned" /\ lut_request.allow_interp
    /\ lut_request.inc_range = <<340, 344>> /\ lut_request.u10_range = <<10, 14>>
    /\ lut_request.phi_range = <<0, 40>>
    /\ IncSampled = <<336, 340, 344, 348>>

(***************************************************************************)
(* Properties of the inversion, continued: when the along-track component  *)
(* of the ancillary wind is folded.                                        *)
(***************************************************************************)
\* last minus first coordinate of the direction axis
Width(np_phi_dim) == np_phi_dim[Len(np_phi_dim)] - np_phi_dim[1]

\* the width of the direction axis is less than 2 degrees away from 180
Near180(np_phi_dim) == Width(np_phi_dim) - 180 < 2 /\ 180 - Width(np_phi_dim) < 2

\* the cost of cell (w, p) of slice i for pixel k, the along-track component
\* being folded if fold
CostIf(fold, lut, i, w, p, k) ==
    JcoCell(lut.wspd[w] * CosT(lut.phi[p]), lut.wspd[w] * SinT(lut.phi[p]),
            lut.values[i][w][p], ancillary_wind[k].re,
            IF fold THEN FAbs(ancillary_wind[k].im) ELSE ancillary_wind[k].im,
            sigma0_co_db[k])

\* the cell chosen for pixel k minimises the cost of its slice, the
\* along-track component being folded if fold
ChosenIf(fold, k) ==
    \A w \in 1..Len(CoLut.wspd), p \in 1..Len(CoLut.phi) :
        ~FLess(CostIf(fold, CoLut, px_locals[k].i_inc + 1, w, p, k),
               CostIf(fold, CoLut, px_locals[k].i_inc + 1,
                      px_locals[k].lut_idx[1] + 1, px_locals[k].lut_idx[2] + 1, k))

\* C16: the cell chosen for a pixel is a minimum of the cost in which the
\* along-track component is folded exactly when the width of the LUT's
\* direction axis is within 2 degrees of 180; for any other width the sign
\* of the component is kept.
C16_FoldIffNear180 ==
    \A k \in DOMAIN px_locals :
        ~px_locals[k].guard => ChosenIf(Near180(CoLut.phi), k)

\* what holds instead: the component is folded whenever the axis is wider
\* than 178 degrees, wider than 182 degrees included
C16_FoldAbove178 ==
    \A k \in DOMAIN px_locals :
        ~px_locals[k].guard => ChosenIf(Width(CoLut.phi) > 178, k)

\* a pixel with a negative along-track component inverted against a LUT
\* whose direction axis is 270 degrees wide: the cell chosen is at 90
\* degrees, the cell at 270 degrees being left aside
C16_Reached ==
    \E k \in DOMAIN px_locals :
        /\ ~px_locals[k].guard /\ Width(CoLut.phi) = 270
        /\ ancillary_wind[k].re = 0 /\ ancillary_wind[k].im = -5
        /\ CoLut.phi[px_locals[k].lut_idx[2] + 1] = 90

\* the same pixel against a LUT 90 degrees wide: the sign is kept
C16_ReachedKept ==
    \E k \in DOMAIN px_locals :
        /\ ~px_locals[k].guard /\ Width(CoLut.phi) = 90
        /\ ancillary_wind[k].re = 0 /\ ancillary_wind[k].im = -5

====
